---- MODULE Spec2Model ----
(***************************************************************************)
(* Two-tier cache (cache.py) and upstream fetch (api.py) of F1_Data.        *)
(*                                                                         *)
(* Strings are sequences of one-character strings, so that formatting,     *)
(* length, ordering and the digest of a key are computed from its          *)
(* characters.  A parameter value is a tagged record: [k |-> "int", v |->  *)
(* n] or [k |-> "str", v |-> characters].  A parameter mapping (a Python    *)
(* dict, which keeps insertion order) is a sequence of <<name, value>>      *)
(* pairs with distinct names.                                              *)
(***************************************************************************)
EXTENDS Integers, Sequences, FiniteSets, TLC

VARIABLES
    kin,      \* key derivation: the inputs (path, two parameter mappings)
    kout,     \* key derivation: the keys computed for them, or NoKeys
    now,      \* the clock, in seconds
    client,   \* redis_cache.client: "unset" before construction, "none", "conn"
    serverUp, \* whether the external store answers (FALSE: every call raises)
    rstore,   \* the external store: key -> entry
    mstore,   \* memory_cache: key -> entry
    mfill,    \* memory_cache: number of further entries, of keys not asked
              \* for again, all stored at time 0
    calls,    \* number of operations performed so far
    last,     \* what the last operation did and returned
    hist,     \* per query, the last upstream call made for it
    extOk,    \* whether a get, set or keys of the external store has succeeded
    pin,      \* _parse_list: the record type and the batch of raw objects
    pout,     \* _parse_list: what it returned and logged
    tin,      \* _convert_time_to_seconds: the argument
    tout,     \* _convert_time_to_seconds: the outcome
    ain,      \* accessors: the function and the arguments of two calls
    aout,     \* accessors: the queries the two calls make, and their keys
    th        \* per thread, where its fetch_with_cache call stands

vars ==
    <<kin, kout, now, client, serverUp, rstore, mstore, mfill, calls, last,
      hist, extOk, pin, pout, tin, tout, ain, aout, th>>
keyVars == <<kin, kout>>
parseVars == <<pin, pout>>
timeVars == <<tin, tout>>
accVars == <<ain, aout>>
pureVars == <<keyVars, parseVars, timeVars, accVars>>
threadVars == <<th>>
cacheVars ==
    <<now, client, serverUp, rstore, mstore, mfill, calls, last, hist,
      extOk>>

----------------------------------------------------------------------------
(* Bounds of the model *)

\* integers used as parameter values range over -MaxInt..MaxInt
MaxInt == 2
\* length of the long string parameter value: with it the canonical string
\* of one key is exactly at the length limit and those of others are past it
LongLen == 183
\* the clock advances in steps of TickStep up to MaxTime
TickStep == 400
MaxTime == 900
\* number of operations in one run
MaxCalls == 2

----------------------------------------------------------------------------
(* Characters and strings *)

\* code points of the characters the model uses (what str comparison and
\* str.encode() read)
Code ==
    ("&" :> 38) @@ ("-" :> 45) @@ ("0" :> 48) @@ ("1" :> 49) @@ ("2" :> 50) @@
    ("3" :> 51) @@ ("4" :> 52) @@ ("5" :> 53) @@ ("6" :> 54) @@ ("7" :> 55) @@
    ("8" :> 56) @@ ("9" :> 57) @@ (":" :> 58) @@ ("<" :> 60) @@ ("=" :> 61) @@
    (">" :> 62) @@ ("?" :> 63) @@ ("_" :> 95) @@ ("a" :> 97) @@ ("b" :> 98) @@
    ("c" :> 99) @@ ("d" :> 100) @@ ("e" :> 101) @@ ("f" :> 102) @@
    ("g" :> 103) @@ ("h" :> 104) @@ ("i" :> 105) @@ ("k" :> 107) @@
    ("l" :> 108) @@ ("m" :> 109) @@ ("n" :> 110) @@ ("o" :> 111) @@
    ("p" :> 112) @@ ("r" :> 114) @@ ("s" :> 115) @@ ("t" :> 116) @@
    ("u" :> 117) @@ ("v" :> 118) @@ ("w" :> 119) @@ ("x" :> 120) @@
    ("y" :> 121)

\* Python's str < str: lexicographic by code point, a proper prefix first
RECURSIVE StrLess(_, _)
StrLess(a, b) ==
    IF b = <<>> THEN FALSE
    ELSE IF a = <<>> THEN TRUE
    ELSE IF Head(a) = Head(b) THEN StrLess(Tail(a), Tail(b))
    ELSE Code[Head(a)] < Code[Head(b)]

Digit(d) == <<"0", "1", "2", "3", "4", "5", "6", "7", "8", "9">>[d + 1]

\* str(n) of a Python int
RECURSIVE IntStr(_)
IntStr(n) ==
    IF n < 0 THEN <<"-">> \o IntStr(-n)
    ELSE IF n < 10 THEN <<Digit(n)>>
    ELSE IntStr(n \div 10) \o <<Digit(n % 10)>>

\* the endpoint and parameter names, spelled out
S_meetings == <<"m","e","e","t","i","n","g","s">>
S_sessions == <<"s","e","s","s","i","o","n","s">>
S_drivers == <<"d","r","i","v","e","r","s">>
S_laps == <<"l","a","p","s">>
S_stints == <<"s","t","i","n","t","s">>
S_pit == <<"p","i","t">>
S_car_data == <<"c","a","r","_","d","a","t","a">>
S_position == <<"p","o","s","i","t","i","o","n">>
S_weather == <<"w","e","a","t","h","e","r">>
S_race_control == <<"r","a","c","e","_","c","o","n","t","r","o","l">>
S_session_key == <<"s","e","s","s","i","o","n","_","k","e","y">>
S_driver_number == <<"d","r","i","v","e","r","_","n","u","m","b","e","r">>
S_f1 == <<"f", "1">>

IntVal(n) == [k |-> "int", v |-> n]
StrVal(s) == [k |-> "str", v |-> s]

----------------------------------------------------------------------------
(* Cache policy: cache.py CACHE_SETTINGS, get_cache_settings, memory_cache *)

DefaultTtl == 600
DefaultMaxsize == 1000
MemoryTtl == 600
MemoryMaxsize == 1000

CACHE_SETTINGS(endpoint) ==
    CASE endpoint = S_meetings -> [ttl |-> 3600 * 24, maxsize |-> 100]
      [] endpoint = S_sessions -> [ttl |-> 3600 * 12, maxsize |-> 500]
      [] endpoint = S_drivers -> [ttl |-> 3600 * 6, maxsize |-> 1000]
      [] endpoint = S_laps -> [ttl |-> 600, maxsize |-> 5000]
      [] endpoint = S_stints -> [ttl |-> 1200, maxsize |-> 2000]
      [] endpoint = S_pit -> [ttl |-> 1200, maxsize |-> 1000]
      [] endpoint = S_car_data -> [ttl |-> 300, maxsize |-> 10000]
      [] endpoint = S_position -> [ttl |-> 300, maxsize |-> 5000]
      [] endpoint = S_weather -> [ttl |-> 1800, maxsize |-> 500]
      [] endpoint = S_race_control -> [ttl |-> 600, maxsize |-> 1000]

KnownEndpoints ==
    {S_meetings, S_sessions, S_drivers, S_laps, S_stints, S_pit, S_car_data,
     S_position, S_weather, S_race_control}

\* the lookup as it would be with the table's first entry as the fallback
get_cache_settings_first(endpoint) ==
    IF endpoint \in KnownEndpoints THEN CACHE_SETTINGS(endpoint)
    ELSE CACHE_SETTINGS(S_meetings)

\* get_cache_settings: CACHE_SETTINGS.get(endpoint, default)
get_cache_settings(endpoint) ==
    IF endpoint \in KnownEndpoints THEN CACHE_SETTINGS(endpoint)
    ELSE [ttl |-> DefaultTtl, maxsize |-> DefaultMaxsize]

----------------------------------------------------------------------------
(* Key derivation: RedisCache._make_key and the local key of               *)
(* fetch_with_cache                                                        *)

KeyLenLimit == 200
DigestLen == 32

\* sorted(params.items()) as it would be with no sorting at all
UnsortedItems(params) == params

\* insert one (name, value) pair into a list sorted by name
RECURSIVE InsertItem(_, _)
InsertItem(item, sorted) ==
    IF sorted = <<>> THEN <<item>>
    ELSE IF StrLess(item[1], Head(sorted)[1]) THEN <<item>> \o sorted
    ELSE <<Head(sorted)>> \o InsertItem(item, Tail(sorted))

RECURSIVE SortFrom(_, _)
SortFrom(params, acc) ==
    IF params = <<>> THEN acc
    ELSE SortFrom(Tail(params), InsertItem(Head(params), acc))

\* sorted(params.items()): the names of a dict are distinct, so the order
\* of the pairs is the order of their names
SortedItems(params) == SortFrom(params, <<>>)

\* f"{v}" of a parameter value
FormatValue(val) == IF val.k = "int" THEN IntStr(val.v) ELSE val.v

\* "&".join(f"{k}={v}" for k, v in items)
RECURSIVE JoinItems(_)
JoinItems(items) ==
    IF items = <<>> THEN <<>>
    ELSE LET one == Head(items)[1] \o <<"=">> \o FormatValue(Head(items)[2])
         IN  IF Len(items) = 1 THEN one
             ELSE one \o <<"&">> \o JoinItems(Tail(items))

\* key_str of _make_key
KeyStr(path, params) ==
    LET param_str == JoinItems(SortedItems(params))
    IN  IF param_str # <<>> THEN path \o <<"?">> \o param_str ELSE path

HexDigit(d) ==
    <<"0","1","2","3","4","5","6","7","8","9","a","b","c","d","e","f">>[d + 1]

\* a checksum of the characters s[lo..hi], by halves
RECURSIVE Checksum(_, _, _)
Checksum(s, lo, hi) ==
    IF lo > hi THEN 7
    ELSE IF lo = hi THEN Code[s[lo]]
    ELSE LET mid == (lo + hi) \div 2
         IN  (Checksum(s, lo, mid) * 31 + Checksum(s, mid + 1, hi) * 17
                 + (hi - lo)) % 65521

\* hashlib.md5(s.encode()).hexdigest(): a deterministic digest of the
\* characters, DigestLen hexadecimal digits long.  The digest itself is a
\* polynomial checksum of the code points, zero-padded.
Md5Hex(s) ==
    LET h == Checksum(s, 1, Len(s))
    IN  [i \in 1..DigestLen |->
            IF i = DigestLen THEN HexDigit(h % 16)
            ELSE IF i = DigestLen - 1 THEN HexDigit((h \div 16) % 16)
            ELSE IF i = DigestLen - 2 THEN HexDigit((h \div 256) % 16)
            ELSE IF i = DigestLen - 3 THEN HexDigit((h \div 4096) % 16)
            ELSE "0"]

S_hash == <<":", "h", "a", "s", "h", ":">>

\* the key as it would be without the hashed form
_make_key_plain(namespace, path, params) ==
    namespace \o <<":">> \o KeyStr(path, params)

\* RedisCache._make_key
_make_key(namespace, path, params) ==
    LET key_str == KeyStr(path, params)
    IN  IF Len(key_str) > KeyLenLimit
        THEN namespace \o S_hash \o Md5Hex(key_str)
        ELSE namespace \o <<":">> \o key_str

\* hash(x) of a parameter value: CPython hashes a small int to itself, but
\* -1 to -2; the hash of a str is modelled as the str itself (no collision
\* between distinct strings)
PyHash(val) ==
    IF val.k = "int"
    THEN [k |-> "int", v |-> IF val.v = -1 THEN -2 ELSE val.v]
    ELSE val

\* hash(tuple(items)): a function of the hashes of the elements, in order
RECURSIVE HashTuple(_)
HashTuple(items) ==
    IF items = <<>> THEN <<>>
    ELSE <<<<Head(items)[1], PyHash(Head(items)[2])>>>> \o HashTuple(Tail(items))

\* key = f"{path}:{hash(tuple(sorted(params.items())))}"
LocalKey(path, params) == <<path, HashTuple(SortedItems(params))>>

----------------------------------------------------------------------------
(* Inputs of key derivation *)

LongStr == [i \in 1..LongLen |-> "x"]

ParamNames == {S_session_key, S_driver_number}
ParamValues ==
    {IntVal(n) : n \in (-MaxInt..MaxInt) \cup {9222}}
        \cup {StrVal(<<"1">>), StrVal(LongStr)}

\* the parameter mappings: every insertion order of every assignment of
\* values to a subset of the names
ParamMappings ==
    {<<>>}
        \cup {<<<<n, v>>>> : n \in ParamNames, v \in ParamValues}
        \cup {m \in {<<<<n1, v1>>, <<n2, v2>>>> :
                        n1 \in ParamNames, n2 \in ParamNames,
                        v1 \in ParamValues, v2 \in ParamValues} :
                 m[1][1] # m[2][1]}

\* the set of (name, value) pairs of a mapping: dict equality
Pairs(params) == {params[i] : i \in 1..Len(params)}

KeyPaths == {S_laps, S_car_data}

NoKeys == [done |-> FALSE, r1 |-> <<>>, r2 |-> <<>>, l1 |-> <<>>, l2 |-> <<>>]

KeyInit ==
    /\ kin \in [path : KeyPaths, p1 : ParamMappings, p2 : ParamMappings]
    /\ kout = NoKeys

\* derive the external and the local key of both mappings
DeriveKeys ==
    /\ ~kout.done
    /\ kout' = [done |-> TRUE,
                r1 |-> _make_key(S_f1, kin.path, kin.p1),
                r2 |-> _make_key(S_f1, kin.path, kin.p2),
                l1 |-> LocalKey(kin.path, kin.p1),
                l2 |-> LocalKey(kin.path, kin.p2)]
    /\ UNCHANGED <<kin>>
    /\ UNCHANGED <<cacheVars, parseVars, timeVars, accVars, threadVars>>

KeyNext == DeriveKeys

----------------------------------------------------------------------------
(* JSON values and json.dumps / json.loads (cache.py lines 80 and 95)      *)
(* A JSON value is a tagged record; JNull is also Python's None.           *)

JInt(n) == [k |-> "int", v |-> n]
JStr(s) == [k |-> "str", v |-> s]
JList(items) == [k |-> "list", v |-> items]
JObj(members) == [k |-> "obj", v |-> members]
JNull == [k |-> "null", v |-> 0]

S_null == <<"n", "u", "l", "l">>
Quote == "\""

RECURSIVE DumpValue(_), DumpElems(_), DumpMembers(_)
\* json.dumps with the default separators ", " and ": "
DumpValue(x) ==
    CASE x.k = "int" -> IntStr(x.v)
      [] x.k = "str" -> <<Quote>> \o x.v \o <<Quote>>
      [] x.k = "null" -> S_null
      [] x.k = "list" -> <<"[">> \o DumpElems(x.v) \o <<"]">>
      [] x.k = "obj" -> <<"{">> \o DumpMembers(x.v) \o <<"}">>

DumpElems(items) ==
    IF items = <<>> THEN <<>>
    ELSE IF Len(items) = 1 THEN DumpValue(Head(items))
    ELSE DumpValue(Head(items)) \o <<",", " ">> \o DumpElems(Tail(items))

DumpMembers(members) ==
    IF members = <<>> THEN <<>>
    ELSE LET one == <<Quote>> \o Head(members)[1] \o <<Quote, ":", " ">>
                        \o DumpValue(Head(members)[2])
         IN  IF Len(members) = 1 THEN one
             ELSE one \o <<",", " ">> \o DumpMembers(Tail(members))

JsonDumps(x) == DumpValue(x)

IsDigit(c) == c \in {"0", "1", "2", "3", "4", "5", "6", "7", "8", "9"}
Drop(s, n) == SubSeq(s, n + 1, Len(s))

RECURSIVE ParseValue(_), ParseElems(_, _), ParseMembers(_, _)
RECURSIVE ParseStrBody(_, _), ParseDigits(_, _)

\* each parser returns the value read and the characters left
ParseDigits(s, n) ==
    IF s # <<>> /\ IsDigit(Head(s))
    THEN ParseDigits(Tail(s), n * 10 + (Code[Head(s)] - Code["0"]))
    ELSE [val |-> n, rest |-> s]

ParseStrBody(s, acc) ==
    IF Head(s) = Quote THEN [val |-> JStr(acc), rest |-> Tail(s)]
    ELSE ParseStrBody(Tail(s), Append(acc, Head(s)))

ParseElems(s, acc) ==
    LET r == ParseValue(s)
    IN  IF Head(r.rest) = ","
        THEN ParseElems(Drop(r.rest, 2), Append(acc, r.val))
        ELSE [val |-> JList(Append(acc, r.val)), rest |-> Tail(r.rest)]

ParseMembers(s, acc) ==
    LET name == ParseStrBody(Tail(s), <<>>)
        r == ParseValue(Drop(name.rest, 2))
        member == <<name.val.v, r.val>>
    IN  IF Head(r.rest) = ","
        THEN ParseMembers(Drop(r.rest, 2), Append(acc, member))
        ELSE [val |-> JObj(Append(acc, member)), rest |-> Tail(r.rest)]

ParseValue(s) ==
    CASE Head(s) = "[" ->
            IF s[2] = "]" THEN [val |-> JList(<<>>), rest |-> Drop(s, 2)]
            ELSE ParseElems(Tail(s), <<>>)
      [] Head(s) = "{" ->
            IF s[2] = "}" THEN [val |-> JObj(<<>>), rest |-> Drop(s, 2)]
            ELSE ParseMembers(Tail(s), <<>>)
      [] Head(s) = Quote -> ParseStrBody(Tail(s), <<>>)
      [] Head(s) = "n" -> [val |-> JNull, rest |-> Drop(s, 4)]
      [] Head(s) = "-" ->
            LET r == ParseDigits(Tail(s), 0)
            IN  [val |-> JInt(-r.val), rest |-> r.rest]
      [] OTHER ->
            LET r == ParseDigits(s, 0)
            IN  [val |-> JInt(r.val), rest |-> r.rest]

JsonLoads(s) == ParseValue(s).val

----------------------------------------------------------------------------
(* The upstream: api.py fetch_json, and the fetch function handed to       *)
(* fetch_with_cache                                                        *)

S_error == <<"e", "r", "r", "o", "r">>
S_bad == <<"b", "a", "d">>
S_lap == <<"l", "a", "p">>

ListA == JList(<<JObj(<<<<S_lap, JInt(12)>>, <<S_pit, JNull>>>>)>>)
ListB == JList(<<JObj(<<<<S_lap, JStr(<<"1">>)>>>>), JInt(-3)>>)
ListEmpty == JList(<<>>)
ErrorDict == JObj(<<<<S_error, JStr(S_bad)>>>>)

\* what requests.get / raise_for_status / response.json() can meet
Responses ==
    {[kind |-> "json", body |-> ListA],
     [kind |-> "json", body |-> ListB],
     [kind |-> "json", body |-> ListEmpty],
     [kind |-> "json", body |-> ErrorDict],
     [kind |-> "http_error", body |-> JNull],
     [kind |-> "transport_error", body |-> JNull]}

\* fetch_json as it would be without the isinstance check
fetch_json_unchecked(resp) ==
    IF resp.kind = "json" THEN resp.body ELSE ListEmpty

\* fetch_json: the JSON body when it is a list, the empty list otherwise
\* (non-list body, RequestException, any other exception); never raises
fetch_json(resp) ==
    IF resp.kind = "json"
    THEN IF resp.body.k = "list" THEN resp.body ELSE ListEmpty
    ELSE ListEmpty

\* the fetch functions: fetch_json (through fetch_with_cache_json) on each
\* response, and a function that raises
UpstreamCases ==
    {[fn |-> "fetch_json", resp |-> r] : r \in Responses}
        \cup {[fn |-> "raising", resp |-> [kind |-> "none", body |-> JNull]]}

\* fetch_fn(path, **params)
CallFetchFn(u) ==
    IF u.fn = "fetch_json"
    THEN [raised |-> FALSE, val |-> fetch_json(u.resp)]
    ELSE [raised |-> TRUE, val |-> JNull]

----------------------------------------------------------------------------
(* The external tier: cache.py RedisCache *)

\* RedisCache.__init__ that keeps the client when the ping fails
RedisCache_init_keep(lib, url, pingOk) ==
    [client |-> IF lib /\ url THEN "conn" ELSE "none", raised |-> FALSE]

\* RedisCache.__init__: lib: the redis import succeeded; url: REDIS_URL is
\* set; pingOk: from_url and ping succeed
RedisCache_init(lib, url, pingOk) ==
    [client |-> IF lib /\ url /\ pingOk THEN "conn" ELSE "none",
     raised |-> FALSE]

\* the entries of the external store that have not expired
RedisLive(store) ==
    [key \in {x \in DOMAIN store : now < store[x].exp} |-> store[key]]

\* RedisCache.get that hands back the stored text undecoded
RedisCache_get_raw(path, params) ==
    LET key == _make_key(S_f1, path, params)
    IN  IF client # "conn" THEN [status |-> "skipped", val |-> JNull, age |-> -1]
        ELSE IF ~serverUp THEN [status |-> "error", val |-> JNull, age |-> -1]
        ELSE IF key \in DOMAIN RedisLive(rstore)
        THEN [status |-> "hit", val |-> JStr(rstore[key].data),
              age |-> now - rstore[key].at]
        ELSE [status |-> "miss", val |-> JNull, age |-> -1]

\* RedisCache.get: None (JNull) without a client, on a miss and on any
\* exception of the client
RedisCache_get(path, params) ==
    LET key == _make_key(S_f1, path, params)
    IN  IF client # "conn" THEN [status |-> "skipped", val |-> JNull, age |-> -1]
        ELSE IF ~serverUp THEN [status |-> "error", val |-> JNull, age |-> -1]
        ELSE IF key \in DOMAIN RedisLive(rstore)
        THEN [status |-> "hit", val |-> JsonLoads(rstore[key].data),
              age |-> now - rstore[key].at]
        ELSE [status |-> "miss", val |-> JNull, age |-> -1]

\* the write as it would be with one expiry for every endpoint
RedisCache_set_default_ttl(path, params, value) ==
    LET key == _make_key(S_f1, path, params)
    IN  IF client # "conn" THEN [status |-> "skipped", store |-> rstore]
        ELSE IF ~serverUp THEN [status |-> "error", store |-> rstore]
        ELSE [status |-> "ok",
              store |-> (key :> [data |-> JsonDumps(value),
                                 exp |-> now + DefaultTtl, at |-> now])
                            @@ RedisLive(rstore)]

\* RedisCache.set: setex(key, ttl of the endpoint, json.dumps(value))
RedisCache_set(path, params, value) ==
    LET key == _make_key(S_f1, path, params)
        ttl == get_cache_settings(path).ttl
    IN  IF client # "conn" THEN [status |-> "skipped", store |-> rstore]
        ELSE IF ~serverUp THEN [status |-> "error", store |-> rstore]
        ELSE [status |-> "ok",
              store |-> (key :> [data |-> JsonDumps(value),
                                 exp |-> now + ttl, at |-> now])
                            @@ RedisLive(rstore)]

\* redis KEYS glob: * matches any run of characters, ? any one character
RECURSIVE GlobMatch(_, _)
GlobMatch(pat, s) ==
    IF pat = <<>> THEN s = <<>>
    ELSE IF Head(pat) = "*"
    THEN GlobMatch(Tail(pat), s) \/ (s # <<>> /\ GlobMatch(pat, Tail(s)))
    ELSE /\ s # <<>>
         /\ (Head(pat) = "?" \/ Head(pat) = Head(s))
         /\ GlobMatch(Tail(pat), Tail(s))

\* RedisCache.clear_pattern: the number of keys deleted; 0 without a client
\* and on any exception of the client
RedisCache_clear_pattern(pattern) ==
    LET live == RedisLive(rstore)
        keys == {x \in DOMAIN live : GlobMatch(S_f1 \o <<":">> \o pattern, x)}
    IN  IF client # "conn" THEN [status |-> "skipped", n |-> 0, store |-> rstore]
        ELSE IF ~serverUp THEN [status |-> "error", n |-> 0, store |-> rstore]
        ELSE [status |-> "ok", n |-> Cardinality(keys),
              store |-> [x \in DOMAIN live \ keys |-> live[x]]]

----------------------------------------------------------------------------
(* The local tier: memory_cache = TTLCache(maxsize=1000, ttl=600) *)

MemContains(key) == key \in DOMAIN mstore /\ now < mstore[key].exp

\* the place in the order of use of the entry used next: after every entry
\* held; the further entries have the places -mfill .. -1
LastUsed(keys) ==
    LET seqs == {mstore[x].seq : x \in keys} \cup {-1}
    IN  CHOOSE m \in seqs : \A n \in seqs : m >= n

\* a read that would also renew the entry's time to live
MemTouch_refresh(key) ==
    [mstore EXCEPT ![key].exp = now + MemoryTtl]

\* memory_cache[key], read: the key becomes the most recently used
MemTouch(key) ==
    LET others == DOMAIN mstore \ {key}
    IN  IF mstore[key].seq > LastUsed(others) THEN mstore
        ELSE [mstore EXCEPT ![key].seq = LastUsed(others) + 1]

\* the keys that have not expired
MemLive == {x \in DOMAIN mstore : now < mstore[x].exp}

\* the further entries that have not expired: stored at time 0, they live
\* for the cache's ttl
FillLive == IF now < MemoryTtl THEN mfill ELSE 0

\* the local tier holds maxsize live entries and key is not one of them
MemFull(key) ==
    key \notin MemLive /\ Cardinality(MemLive) + FillLive >= MemoryMaxsize

\* the assignment as it would be in a cache that grows without limit
MemSet_grow(key, value) ==
    LET live == MemLive
    IN  [store |-> (key :> [val |-> value, exp |-> now + MemoryTtl,
                            at |-> now, seq |-> LastUsed(live \ {key}) + 1])
                       @@ [x \in live |-> mstore[x]],
         fill |-> FillLive]

\* the assignment as it would be if a key that is present kept its value
MemSet_keep(key, value) ==
    IF key \in MemLive THEN [store |-> mstore, fill |-> FillLive]
    ELSE MemSet_grow(key, value)

\* memory_cache[key] = value: drop what expired, make room by discarding
\* the least recently used entry, insert with the cache's one ttl. The
\* i-th youngest of the further entries was last used at -i.
MemSet(key, value) ==
    LET live == MemLive
        fill == FillLive
        seqs == {mstore[x].seq : x \in live}
        first == CHOOSE m \in seqs : \A n \in seqs : m <= n
        oldest == CHOOSE x \in live : mstore[x].seq = first
        full == MemFull(key)
        dropKey == full /\ live # {} /\ (fill = 0 \/ first < -fill)
        kept == IF dropKey THEN live \ {oldest} ELSE live
    IN  [store |-> (key :> [val |-> value, exp |-> now + MemoryTtl,
                            at |-> now, seq |-> LastUsed(kept \ {key}) + 1])
                       @@ [x \in kept |-> mstore[x]],
         fill |-> IF full /\ ~dropKey THEN fill - 1 ELSE fill]

----------------------------------------------------------------------------
(* The fetch orchestrator: cache.py fetch_with_cache, clear_cache *)

\* the lookup as it would be with the local tier asked first
LookupLocalFirst(path, params) ==
    LET key == LocalKey(path, params)
        rg == RedisCache_get(path, params)
    IN  IF MemContains(key)
        THEN [src |-> "memory", val |-> mstore[key].val, rget |-> "notreached",
              mlook |-> "hit", age |-> now - mstore[key].at]
        ELSE IF rg.val # JNull
        THEN [src |-> "redis", val |-> rg.val, rget |-> rg.status,
              mlook |-> "miss", age |-> rg.age]
        ELSE [src |-> "miss", val |-> JNull, rget |-> rg.status,
              mlook |-> "miss", age |-> -1]

\* lines 125-133: the external tier first, the local tier second
Lookup(path, params) ==
    LET rg == RedisCache_get(path, params)
        key == LocalKey(path, params)
    IN  IF rg.val # JNull
        THEN [src |-> "redis", val |-> rg.val, rget |-> rg.status,
              mlook |-> "notreached", age |-> rg.age]
        ELSE IF MemContains(key)
        THEN [src |-> "memory", val |-> mstore[key].val, rget |-> rg.status,
              mlook |-> "hit", age |-> now - mstore[key].at]
        ELSE [src |-> "miss", val |-> JNull, rget |-> rg.status,
              mlook |-> "miss", age |-> -1]

\* the queries fetched: two whose external keys coincide (1 and "1") and two
\* whose local keys coincide (hash(-1) = hash(-2))
Queries ==
    {[path |-> S_car_data, params |-> <<<<S_session_key, IntVal(1)>>>>],
     [path |-> S_car_data, params |-> <<<<S_session_key, StrVal(<<"1">>)>>>>],
     [path |-> S_stints, params |-> <<<<S_driver_number, IntVal(-1)>>>>],
     [path |-> S_stints, params |-> <<<<S_driver_number, IntVal(-2)>>>>]}

\* nothing parsed, nothing converted
NoBatch == [model |-> "none", data |-> <<>>, pyd |-> 0, none |-> FALSE]
NoParsed ==
    [done |-> FALSE, raised |-> FALSE, items |-> <<>>, errors |-> 0,
     warned |-> 0, summary |-> FALSE]
NoOutcome == [done |-> FALSE, raised |-> FALSE, val |-> JNull]

ParseIdle == pin = NoBatch /\ pout = NoParsed
TimeIdle == tin = JNull /\ tout = NoOutcome

NoQuery == [path |-> <<>>, params |-> <<>>]

\* no accessor called
NoCalls == [fn |-> "none", a |-> <<>>, b |-> <<>>]
NoQueries ==
    [done |-> FALSE, qa |-> NoQuery, qb |-> NoQuery,
     ra |-> <<>>, rb |-> <<>>, la |-> <<>>, lb |-> <<>>]
AccessIdle == ain = NoCalls /\ aout = NoQueries

NoResponse == [kind |-> "none", body |-> JNull]
NoCall == [at |-> -1, val |-> JNull, raised |-> FALSE]
NoEnv == [lib |-> FALSE, url |-> FALSE, pingOk |-> FALSE, raised |-> FALSE]

NoLast ==
    [op |-> "none", at |-> 0, env |-> NoEnv, q |-> NoQuery, fn |-> "none",
     resp |-> NoResponse,
     rget |-> "none", mlook |-> "none", up |-> "none", rset |-> "none",
     src |-> "none", result |-> JNull, exc |-> "none", age |-> -1,
     prev |-> NoCall, rt |-> FALSE, both |-> FALSE, reach |-> FALSE,
     mfull |-> FALSE, cleared |-> 0, pat |-> <<>>, inval |-> FALSE]

\* a thread that has not called fetch_with_cache
NoThread ==
    [pc |-> "idle", q |-> NoQuery, data |-> JNull, result |-> JNull,
     src |-> "none", exc |-> "none", stored |-> FALSE,
     \* the external store never answers the call in progress
     wait |-> FALSE,
     \* the thread's write was the mord-th to the local tier and the rord-th
     \* to the external tier (0: no write); found: line 132 was true
     mord |-> 0, rord |-> 0, found |-> FALSE]
ThreadsIdle == th = <<>>

Patterns == {<<"*">>, S_car_data \o <<"*">>}

CacheInit ==
    /\ now = 0
    /\ client = "unset"
    /\ serverUp \in BOOLEAN
    /\ rstore = <<>>
    /\ mstore = <<>>
    /\ mfill = 0
    /\ calls = 0
    /\ last = NoLast
    /\ hist = [q \in Queries |-> NoCall]
    /\ extOk = FALSE

\* redis_cache = RedisCache(), at import
Construct(lib, url) ==
    /\ client = "unset"
    /\ LET r == RedisCache_init(lib, url, serverUp)
       IN  /\ client' = r.client
           /\ last' = [NoLast EXCEPT
                         !.op = "init",
                         !.env = [lib |-> lib, url |-> url,
                                  pingOk |-> serverUp, raised |-> r.raised]]
    /\ UNCHANGED <<now, serverUp, rstore, mstore, mfill, calls, hist, extOk>>
    /\ UNCHANGED <<pureVars, threadVars>>

\* fetch_with_cache(fetch_fn, path, **params), with fetch_fn as u describes
FetchWith(q, u, lk, key, rkey) ==
    /\ LET hit == lk.src \in {"redis", "memory"}
           fr == CallFetchFn(u)
           stored == ~hit /\ ~fr.raised
           rs == IF stored THEN RedisCache_set(q.path, q.params, fr.val)
                 ELSE [status |-> "notreached", store |-> rstore]
           ttl == get_cache_settings(q.path).ttl
           ms == IF stored THEN MemSet(key, fr.val)
                 ELSE [store |-> mstore, fill |-> mfill]
       IN  /\ extOk' = (extOk \/ lk.rget \in {"hit", "miss"} \/ rs.status = "ok")
           /\ mstore' = IF stored THEN ms.store
                        ELSE IF lk.src = "memory" THEN MemTouch(key)
                        ELSE mstore
           /\ mfill' = ms.fill
           /\ rstore' = rs.store
           /\ hist' = IF hit THEN hist
                      ELSE [hist EXCEPT ![q] = [at |-> now, val |-> fr.val,
                                                raised |-> fr.raised]]
           /\ last' =
                [op |-> "fetch", at |-> now, env |-> NoEnv, q |-> q,
                 fn |-> IF hit THEN "none" ELSE u.fn,
                 resp |-> IF hit THEN NoResponse ELSE u.resp,
                 rget |-> lk.rget, mlook |-> lk.mlook,
                 up |-> IF hit THEN "notcalled"
                        ELSE IF fr.raised THEN "raised" ELSE "returned",
                 rset |-> rs.status,
                 src |-> IF hit THEN lk.src ELSE "upstream",
                 result |-> IF hit THEN lk.val
                            ELSE IF fr.raised THEN JNull ELSE fr.val,
                 exc |-> IF ~hit /\ fr.raised THEN "upstream" ELSE "none",
                 age |-> lk.age,
                 prev |-> hist[q],
                 \* the previous operation stored a value for this query,
                 \* neither tier's expiry has passed since, and no call to
                 \* the external store failed
                 rt |-> /\ last.op = "fetch" /\ last.up = "returned"
                        /\ last.q = q /\ last.rset # "error"
                        /\ now < last.at + ttl /\ now < last.at + MemoryTtl
                        /\ (client = "conn" => serverUp),
                 \* both tiers held a live entry for the query, and the
                 \* external store answers
                 both |-> /\ client = "conn" /\ serverUp
                          /\ rkey \in DOMAIN RedisLive(rstore)
                          /\ MemContains(key),
                 \* the external store has a client and answers
                 reach |-> client = "conn" /\ serverUp,
                 \* the value was stored into a full local tier
                 mfull |-> stored /\ MemFull(key),
                 cleared |-> 0, pat |-> <<>>,
                 \* the previous operation was a clear_cache whose pattern
                 \* matches the external key of the query
                 inval |-> /\ last.op = "clear"
                           /\ GlobMatch(S_f1 \o <<":">> \o last.pat, rkey)]
    /\ calls' = calls + 1
    /\ UNCHANGED <<now, client, serverUp>>
    /\ UNCHANGED <<pureVars, threadVars>>

\* no fetch function is called when a tier answers
NotCalled == [fn |-> "none", resp |-> NoResponse]

\* fetch_with_cache(path, params, fetch_fn): the answer u of the upstream is
\* drawn only when neither tier answers
Fetch(q) ==
    /\ client # "unset"
    /\ calls < MaxCalls
    /\ LET lk == Lookup(q.path, q.params)
           key == LocalKey(q.path, q.params)
           rkey == _make_key(S_f1, q.path, q.params)
       IN  \E u \in (IF lk.src \in {"redis", "memory"} THEN {NotCalled}
                     ELSE UpstreamCases) :
               FetchWith(q, u, lk, key, rkey)

\* clear_cache(pattern)
ClearCache(pattern) ==
    /\ client # "unset"
    /\ calls < MaxCalls
    /\ LET rc == RedisCache_clear_pattern(pattern)
       IN  /\ rstore' = rc.store
           /\ mstore' = IF pattern = <<"*">> THEN <<>> ELSE mstore
           /\ mfill' = IF pattern = <<"*">> THEN 0 ELSE mfill
           /\ extOk' = (extOk \/ rc.status = "ok")
           /\ last' = [NoLast EXCEPT !.op = "clear", !.at = now,
                                     !.rget = rc.status, !.cleared = rc.n,
                                     !.pat = pattern]
    /\ calls' = calls + 1
    /\ UNCHANGED <<now, client, serverUp, hist>>
    /\ UNCHANGED <<pureVars, threadVars>>

\* time passes
Tick ==
    /\ now + TickStep <= MaxTime
    /\ now' = now + TickStep
    /\ UNCHANGED <<client, serverUp, rstore, mstore, mfill, calls, last,
                   hist, extOk>>
    /\ UNCHANGED <<pureVars, threadVars>>

\* the external store stops answering, or answers again
ServerFlip ==
    /\ client = "conn"
    /\ serverUp' = ~serverUp
    /\ UNCHANGED <<now, client, rstore, mstore, mfill, calls, last, hist,
                   extOk>>
    /\ UNCHANGED <<pureVars, threadVars>>

Init ==
    /\ CacheInit
    /\ kin = [path |-> S_laps, p1 |-> <<>>, p2 |-> <<>>]
    /\ kout = NoKeys
    /\ ParseIdle
    /\ TimeIdle
    /\ ThreadsIdle
    /\ AccessIdle

Next ==
    \/ \E lib \in BOOLEAN, url \in BOOLEAN : Construct(lib, url)
    \/ \E q \in Queries : Fetch(q)
    \/ \E pattern \in Patterns : ClearCache(pattern)
    \/ Tick
    \/ ServerFlip

Spec == Init /\ [][Next]_vars

\* key derivation alone, over every pair of parameter mappings
InitKey ==
    /\ KeyInit
    /\ CacheInit
    /\ serverUp
    /\ ParseIdle
    /\ TimeIdle
    /\ ThreadsIdle
    /\ AccessIdle

SpecKey == InitKey /\ [][KeyNext]_vars

\* the local tier filled to its capacity at time 0: the first query's
\* value, stored first, and maxsize - 1 further entries after it
FullStore ==
    LocalKey(S_car_data, <<<<S_session_key, IntVal(1)>>>>)
        :> [val |-> ListA, exp |-> MemoryTtl, at |-> 0,
            seq |-> -MemoryMaxsize]

\* fetches in local-only mode into a full local tier
InitFull ==
    /\ now = 0
    /\ client = "none"
    /\ serverUp = FALSE
    /\ rstore = <<>>
    /\ mstore = FullStore
    /\ mfill = MemoryMaxsize - 1
    /\ calls = 0
    /\ last = NoLast
    /\ hist = [q \in Queries |-> NoCall]
    /\ extOk = FALSE
    /\ kin = [path |-> S_laps, p1 |-> <<>>, p2 |-> <<>>]
    /\ kout = NoKeys
    /\ ParseIdle
    /\ TimeIdle
    /\ ThreadsIdle
    /\ AccessIdle

NextFull ==
    \/ \E q \in Queries : Fetch(q)
    \/ Tick

SpecFull == InitFull /\ [][NextFull]_vars

\* the query whose list both tiers hold when clear_cache is called
CachedQuery == [path |-> S_car_data, params |-> <<<<S_session_key, IntVal(1)>>>>]

\* the tiers as fetch_with_cache leaves them at time 0 after it stored ListA
\* for CachedQuery: with a client that answers, or in local-only mode
InitClear ==
    /\ now = 0
    /\ \/ client = "conn" /\ serverUp = TRUE
       \/ client = "none" /\ serverUp = FALSE
    /\ rstore = IF client = "conn"
                THEN _make_key(S_f1, CachedQuery.path, CachedQuery.params)
                         :> [data |-> JsonDumps(ListA),
                             exp |-> get_cache_settings(CachedQuery.path).ttl,
                             at |-> 0]
                ELSE <<>>
    /\ mstore = LocalKey(CachedQuery.path, CachedQuery.params)
                    :> [val |-> ListA, exp |-> MemoryTtl, at |-> 0, seq |-> 0]
    /\ mfill = 0
    /\ calls = 0
    /\ last = NoLast
    /\ hist = [q \in Queries |->
                  IF q = CachedQuery
                  THEN [at |-> 0, val |-> ListA, raised |-> FALSE]
                  ELSE NoCall]
    /\ extOk = (client = "conn")
    /\ kin = [path |-> S_laps, p1 |-> <<>>, p2 |-> <<>>]
    /\ kout = NoKeys
    /\ ParseIdle
    /\ TimeIdle
    /\ ThreadsIdle
    /\ AccessIdle

NextClear ==
    \/ \E q \in Queries : Fetch(q)
    \/ \E pattern \in Patterns : ClearCache(pattern)
    \/ Tick
    \/ ServerFlip

SpecClear == InitClear /\ [][NextClear]_vars

----------------------------------------------------------------------------
(* fetch_with_cache called from several threads at once, in local-only    *)
(* mode. Each access to memory_cache is one step; the steps of the calls  *)
(* interleave freely. No lock is taken in cache.py.                        *)

Threads == {1, 2}

InitThreads ==
    /\ now = 0
    /\ \/ client = "conn" /\ serverUp = TRUE
       \/ client = "none" /\ serverUp = FALSE
    /\ rstore = <<>>
    /\ mstore = FullStore
    /\ mfill = MemoryMaxsize - 1
    /\ calls = 0
    /\ last = NoLast
    /\ hist = [q \in Queries |-> NoCall]
    /\ extOk = FALSE
    /\ kin = [path |-> S_laps, p1 |-> <<>>, p2 |-> <<>>]
    /\ kout = NoKeys
    /\ ParseIdle
    /\ TimeIdle
    /\ AccessIdle
    /\ th = [t \in Threads |-> NoThread]

ThreadKey(t) == LocalKey(th[t].q.path, th[t].q.params)
ThreadRedisKey(t) == _make_key(S_f1, th[t].q.path, th[t].q.params)

\* how many threads have written to a tier (f is "mord" or "rord")
Written(f) == Cardinality({o \in DOMAIN th : th[o][f] > 0})

\* line 126: the call starts and redis_cache.get is entered; wait says that
\* the external store will not answer the calls of this thread
TBegin(t, q, wait) ==
    /\ th[t].pc = "idle"
    /\ wait => client = "conn"
    /\ th' = [th EXCEPT ![t] = [NoThread EXCEPT !.pc = "rget", !.q = q,
                                               !.wait = wait]]
    /\ UNCHANGED <<cacheVars, pureVars>>

\* lines 126-128: redis_cache.get returns (at once without a client, when
\* the store has answered with one), and its value is returned unless None
TRedisGet(t) ==
    /\ th[t].pc = "rget"
    /\ ~th[t].wait
    /\ LET rg == RedisCache_get(th[t].q.path, th[t].q.params)
       IN  th' = [th EXCEPT ![t] =
                     IF rg.val # JNull
                     THEN [@ EXCEPT !.pc = "done", !.src = "redis",
                                    !.result = rg.val]
                     ELSE [@ EXCEPT !.pc = "contains"]]
    /\ UNCHANGED <<cacheVars, pureVars>>

\* line 132: key in memory_cache
TContains(t) ==
    /\ th[t].pc = "contains"
    /\ th' = [th EXCEPT ![t] =
                 IF MemContains(ThreadKey(t))
                 THEN [@ EXCEPT !.pc = "getitem", !.found = TRUE]
                 ELSE [@ EXCEPT !.pc = "fetch"]]
    /\ UNCHANGED <<cacheVars, pureVars>>

\* line 133: return memory_cache[key]; a key that is no longer there is a
\* KeyError
TGetItem(t) ==
    /\ th[t].pc = "getitem"
    /\ IF MemContains(ThreadKey(t))
       THEN /\ th' = [th EXCEPT ![t].pc = "done", ![t].src = "memory",
                                ![t].result = mstore[ThreadKey(t)].val]
            /\ mstore' = MemTouch(ThreadKey(t))
       ELSE /\ th' = [th EXCEPT ![t].pc = "done", ![t].exc = "KeyError"]
            /\ mstore' = mstore
    /\ UNCHANGED <<now, client, serverUp, rstore, mfill, calls, last, hist,
                   extOk>>
    /\ UNCHANGED pureVars

\* line 137: data = fetch_fn(path, **params)
TFetch(t, u) ==
    /\ th[t].pc = "fetch"
    /\ LET fr == CallFetchFn(u)
       IN  th' = [th EXCEPT ![t] =
                     IF fr.raised
                     THEN [@ EXCEPT !.pc = "done", !.exc = "upstream"]
                     ELSE [@ EXCEPT !.pc = "store", !.data = fr.val]]
    /\ UNCHANGED <<cacheVars, pureVars>>

\* line 140: memory_cache[key] = data; then redis_cache.set is entered
TStore(t) ==
    /\ th[t].pc = "store"
    /\ LET ms == MemSet(ThreadKey(t), th[t].data)
       IN  /\ mstore' = ms.store
           /\ mfill' = ms.fill
    /\ th' = [th EXCEPT ![t].pc = "rset", ![t].stored = TRUE,
                        ![t].mord = Written("mord") + 1]
    /\ UNCHANGED <<now, client, serverUp, rstore, calls, last, hist, extOk>>
    /\ UNCHANGED pureVars

\* lines 141-143: redis_cache.set returns and the data is returned
TRedisSet(t) ==
    /\ th[t].pc = "rset"
    /\ ~th[t].wait
    /\ LET rs == RedisCache_set(th[t].q.path, th[t].q.params, th[t].data)
       IN  /\ rstore' = rs.store
           /\ th' = [th EXCEPT ![t].pc = "done", ![t].src = "upstream",
                               ![t].result = th[t].data,
                               ![t].rord = IF rs.status = "ok"
                                           THEN Written("rord") + 1 ELSE 0]
    /\ UNCHANGED <<now, client, serverUp, mstore, mfill, calls, last, hist,
                   extOk>>
    /\ UNCHANGED pureVars

\* one step of thread t; Waits says whether the external store may fail to
\* answer
TStep(t, Waits) ==
    \/ \E q \in Queries, wait \in Waits : TBegin(t, q, wait)
    \/ TRedisGet(t)
    \/ TContains(t)
    \/ TGetItem(t)
    \/ \E u \in UpstreamCases : TFetch(t, u)
    \/ TStore(t)
    \/ TRedisSet(t)

\* two calls in two threads, with an external store that answers
NextThreads == \E t \in DOMAIN th : TStep(t, {FALSE})

SpecThreads == InitThreads /\ [][NextThreads]_vars

\* one call in one thread, while time passes, clear_cache runs (in another
\* thread) and the external store may not answer
InitSolo ==
    /\ now = 0
    /\ \/ client = "conn" /\ serverUp = TRUE
       \/ client = "none" /\ serverUp = FALSE
    /\ rstore = <<>>
    /\ mstore = FullStore
    /\ mfill = MemoryMaxsize - 1
    /\ calls = 0
    /\ last = NoLast
    /\ hist = [q \in Queries |-> NoCall]
    /\ extOk = FALSE
    /\ kin = [path |-> S_laps, p1 |-> <<>>, p2 |-> <<>>]
    /\ kout = NoKeys
    /\ ParseIdle
    /\ TimeIdle
    /\ AccessIdle
    /\ th = [t \in {1} |-> NoThread]

NextSolo ==
    \/ TStep(1, BOOLEAN)
    \/ \E pattern \in Patterns : ClearCache(pattern)
    \/ Tick

SpecSolo == InitSolo /\ [][NextSolo]_vars

\* a thread that can take a step eventually takes one
SpecSoloFair == SpecSolo /\ WF_vars(TStep(1, BOOLEAN))

----------------------------------------------------------------------------
(* Python's float(s) and int(s) of a str. The strings met here carry no    *)
(* sign, exponent, blank or underscore. A float is a whole part and a      *)
(* fraction in millionths.                                                 *)

FracDigits == 6
FracScale == 10 * 10 * 10 * 10 * 10 * 10

JFloat(i, f) == [k |-> "float", v |-> <<i, f>>]
JBool(b) == [k |-> "bool", v |-> b]

AllDigits(s) == \A i \in 1..Len(s) : IsDigit(s[i])

DigitVal(c) == CHOOSE d \in 0..9 : Digit(d) = c

RECURSIVE DigitsVal(_)
DigitsVal(s) ==
    IF s = <<>> THEN 0
    ELSE 10 * DigitsVal(SubSeq(s, 1, Len(s) - 1)) + DigitVal(s[Len(s)])

\* index of the first c in s, 0 when there is none
FirstIndex(s, c) ==
    IF \E i \in 1..Len(s) : s[i] = c
    THEN CHOOSE i \in 1..Len(s) : s[i] = c /\ \A j \in 1..(i - 1) : s[j] # c
    ELSE 0

\* the digits after the point, as millionths
FracVal(s) ==
    LET d == IF Len(s) > FracDigits THEN SubSeq(s, 1, FracDigits) ELSE s
    IN  DigitsVal(d \o [i \in 1..(FracDigits - Len(d)) |-> "0"])

\* float(s): digits, optionally a point and digits, one digit at least;
\* anything else is a ValueError
PyFloat(s) ==
    LET dot == FirstIndex(s, ".")
        ip == IF dot = 0 THEN s ELSE SubSeq(s, 1, dot - 1)
        fp == IF dot = 0 THEN <<>> ELSE SubSeq(s, dot + 1, Len(s))
    IN  IF AllDigits(ip) /\ AllDigits(fp) /\ Len(ip) + Len(fp) > 0
        THEN [ok |-> TRUE, val |-> JFloat(DigitsVal(ip), FracVal(fp))]
        ELSE [ok |-> FALSE, val |-> JNull]

\* int(s): digits only
PyInt(s) ==
    IF s # <<>> /\ AllDigits(s)
    THEN [ok |-> TRUE, val |-> JInt(DigitsVal(s))]
    ELSE [ok |-> FALSE, val |-> JNull]

----------------------------------------------------------------------------
(* Record types: models.py. A field is <<name, type, required>>; the type  *)
(* "vdatetime" is an Optional[datetime] behind the pre-validator that      *)
(* turns an unreadable date string into None.                              *)

Models ==
    {"Meeting", "Session", "Driver", "Lap", "Stint", "Pit", "CarData",
     "Position", "Weather", "RaceControl"}

Schema(model) ==
    CASE model = "Meeting" ->
           <<<<"meeting_key", "int", TRUE>>, <<"year", "int", TRUE>>,
             <<"meeting_name", "str", TRUE>>,
             <<"meeting_country", "str", FALSE>>,
             <<"meeting_circuit", "str", FALSE>>,
             <<"date_start", "datetime", TRUE>>,
             <<"gmt_offset", "str", TRUE>>,
             <<"meeting_official_name", "str", TRUE>>,
             <<"location", "str", TRUE>>>>
      [] model = "Session" ->
           <<<<"session_key", "int", TRUE>>, <<"meeting_key", "int", TRUE>>,
             <<"session_name", "str", TRUE>>, <<"session_type", "str", TRUE>>,
             <<"date_start", "datetime", TRUE>>,
             <<"date_end", "datetime", TRUE>>, <<"gmt_offset", "str", TRUE>>,
             <<"country_code", "str", TRUE>>, <<"country_key", "int", TRUE>>,
             <<"country_name", "str", TRUE>>, <<"circuit_key", "int", TRUE>>,
             <<"circuit_short_name", "str", TRUE>>>>
      [] model = "Driver" ->
           <<<<"driver_number", "int", TRUE>>, <<"session_key", "int", TRUE>>,
             <<"broadcast_name", "str", TRUE>>, <<"full_name", "str", TRUE>>,
             <<"name_acronym", "str", TRUE>>, <<"team_name", "str", TRUE>>,
             <<"team_colour", "str", FALSE>>, <<"first_name", "str", TRUE>>,
             <<"last_name", "str", TRUE>>, <<"headshot_url", "str", FALSE>>,
             <<"country_code", "str", FALSE>>>>
      [] model = "Lap" ->
           <<<<"session_key", "int", TRUE>>, <<"driver_number", "int", TRUE>>,
             <<"date_start", "vdatetime", FALSE>>,
             <<"lap_number", "int", TRUE>>,
             <<"lap_duration", "float", FALSE>>,
             <<"duration_sector_1", "float", FALSE>>,
             <<"duration_sector_2", "float", FALSE>>,
             <<"duration_sector_3", "float", FALSE>>,
             <<"segments_sector_1", "list", FALSE>>,
             <<"segments_sector_2", "list", FALSE>>,
             <<"segments_sector_3", "list", FALSE>>,
             <<"is_pit_out_lap", "bool", FALSE>>,
             <<"st_speed", "float", FALSE>>, <<"i1_speed", "float", FALSE>>,
             <<"i2_speed", "float", FALSE>>, <<"fl_speed", "float", FALSE>>>>
      [] model = "Stint" ->
           <<<<"session_key", "int", TRUE>>, <<"driver_number", "int", TRUE>>,
             <<"stint_number", "int", TRUE>>, <<"compound", "str", TRUE>>,
             <<"lap_start", "int", TRUE>>, <<"lap_end", "int", TRUE>>,
             <<"tyre_age_at_start", "int", TRUE>>>>
      [] model = "Pit" ->
           <<<<"session_key", "int", TRUE>>, <<"driver_number", "int", TRUE>>,
             <<"date", "vdatetime", FALSE>>, <<"lap_number", "int", TRUE>>,
             <<"pit_duration", "float", FALSE>>>>
      [] model = "CarData" ->
           <<<<"session_key", "int", TRUE>>, <<"driver_number", "int", TRUE>>,
             <<"date", "vdatetime", FALSE>>, <<"speed", "float", FALSE>>,
             <<"rpm", "int", FALSE>>, <<"n_gear", "int", FALSE>>,
             <<"throttle", "float", FALSE>>, <<"brake", "bool", FALSE>>,
             <<"drs", "int", FALSE>>>>
      [] model = "Position" ->
           <<<<"session_key", "int", TRUE>>, <<"driver_number", "int", TRUE>>,
             <<"date", "vdatetime", FALSE>>, <<"x", "float", TRUE>>,
             <<"y", "float", TRUE>>, <<"z", "float", TRUE>>>>
      [] model = "Weather" ->
           <<<<"session_key", "int", TRUE>>, <<"date", "vdatetime", FALSE>>,
             <<"air_temperature", "float", FALSE>>,
             <<"humidity", "float", FALSE>>, <<"pressure", "float", FALSE>>,
             <<"rainfall", "bool", FALSE>>,
             <<"track_temperature", "float", FALSE>>,
             <<"wind_direction", "int", FALSE>>,
             <<"wind_speed", "float", FALSE>>>>
      [] model = "RaceControl" ->
           <<<<"session_key", "int", TRUE>>, <<"date", "vdatetime", FALSE>>,
             <<"lap_number", "int", FALSE>>,
             <<"driver_number", "int", FALSE>>, <<"message", "str", TRUE>>,
             <<"category", "str", FALSE>>, <<"flag", "str", FALSE>>,
             <<"scope", "str", FALSE>>, <<"sector", "int", FALSE>>>>

Fields(model) == {Schema(model)[i] : i \in 1..Len(Schema(model))}
FieldNames(model) == {f[1] : f \in Fields(model)}
Required(model) == {f[1] : f \in {g \in Fields(model) : g[3]}}
Optionals(model) == FieldNames(model) \ Required(model)
FieldOf(model, name) == CHOOSE f \in Fields(model) : f[1] = name

\* a raw object: a decoded JSON object, as a mapping from names to values
RawObj(f) == [k |-> "dict", v |-> f]
JDate(s) == [k |-> "datetime", v |-> s]

\* a date string the date parsers read: YYYY-MM-DD
DateOk(s) ==
    /\ Len(s) = 10
    /\ \A i \in 1..10 : IF i \in {5, 8} THEN s[i] = "-" ELSE IsDigit(s[i])

Accept(val) == [ok |-> TRUE, val |-> val]
Reject == [ok |-> FALSE, val |-> JNull]

\* a field left out of the raw object, as it would be if every field were
\* required
Absent_required(req) == Reject

\* a field left out of the raw object: the default None, unless required
Absent(req) == IF req THEN Reject ELSE Accept(JNull)

\* pydantic's validation of one present value against a field type; pyd is
\* the major version of the library, which differ on a number given for a
\* str and on a float with a fraction given for an int
ValidateValue(ty, req, val, pyd) ==
    IF val.k = "null"
    THEN (IF req THEN Reject ELSE Accept(JNull))
    ELSE CASE ty = "int" ->
                (CASE val.k = "int" -> Accept(val)
                   [] val.k = "str" -> PyInt(val.v)
                   [] val.k = "bool" -> Accept(JInt(IF val.v THEN 1 ELSE 0))
                   [] val.k = "float" ->
                        IF val.v[2] = 0 \/ pyd = 1 THEN Accept(JInt(val.v[1]))
                        ELSE Reject
                   [] OTHER -> Reject)
           [] ty = "str" ->
                (CASE val.k = "str" -> Accept(val)
                   [] val.k = "int" ->
                        IF pyd = 1 THEN Accept(JStr(IntStr(val.v)))
                        ELSE Reject
                   [] val.k \in {"list", "dict"} -> Reject)
           [] ty = "float" ->
                (CASE val.k = "float" -> Accept(val)
                   [] val.k = "int" -> Accept(JFloat(val.v, 0))
                   [] val.k = "str" -> PyFloat(val.v)
                   [] val.k = "bool" ->
                        Accept(JFloat(IF val.v THEN 1 ELSE 0, 0))
                   [] OTHER -> Reject)
           [] ty = "bool" ->
                (CASE val.k = "bool" -> Accept(val)
                   [] val.k = "int" ->
                        IF val.v \in {0, 1} THEN Accept(JBool(val.v = 1))
                        ELSE Reject
                   [] val.k = "str" ->
                        IF val.v \in {<<"0">>, <<"1">>}
                        THEN Accept(JBool(val.v = <<"1">>))
                        ELSE Reject
                   [] OTHER -> Reject)
           [] ty = "list" ->
                (CASE val.k = "list" -> Accept(val)
                   [] OTHER -> Reject)
           [] ty = "datetime" ->
                (CASE val.k = "str" ->
                        IF DateOk(val.v) THEN Accept(JDate(val.v)) ELSE Reject
                   [] val.k \in {"list", "dict"} -> Reject)
           [] ty = "vdatetime" ->
                \* lines 62-71: pd.to_datetime of a str, None when it fails
                (CASE val.k = "str" ->
                        IF DateOk(val.v) THEN Accept(JDate(val.v))
                        ELSE Accept(JNull)
                   [] val.k \in {"list", "dict"} -> Reject)

\* one field of a raw mapping
ValidateField(f, obj, pyd) ==
    IF f[1] \in DOMAIN obj THEN ValidateValue(f[2], f[3], obj[f[1]], pyd)
    ELSE Absent(f[3])

\* model.parse_obj(item): the record, or a ValidationError; names outside
\* the schema are ignored
Validate(model, item, pyd) ==
    IF item.k # "dict" THEN [ok |-> FALSE, rec |-> <<>>]
    ELSE LET sch == Schema(model)
             res == [i \in 1..Len(sch) |-> ValidateField(sch[i], item.v, pyd)]
         IN  IF \A i \in 1..Len(sch) : res[i].ok
             THEN [ok |-> TRUE,
                   rec |-> [n \in {sch[i][1] : i \in 1..Len(sch)} |->
                              res[CHOOSE i \in 1..Len(sch) : sch[i][1] = n].val]]
             ELSE [ok |-> FALSE, rec |-> <<>>]

\* line 71: the detailed warning is logged for the first failures only
WarnCap == 3
LogsDetail_always(errors) == TRUE
LogsDetail(errors) == errors <= WarnCap

\* the loop as it would be if each record were put in front of the list
RECURSIVE ParseFrom_prepend(_, _, _, _, _)
ParseFrom_prepend(data, model, pyd, i, acc) ==
    IF i > Len(data) THEN acc
    ELSE LET r == Validate(model, data[i], pyd)
             errors == acc.errors + 1
         IN  ParseFrom_prepend(data, model, pyd, i + 1,
                 IF r.ok THEN [acc EXCEPT !.items = <<r.rec>> \o @]
                 ELSE [acc EXCEPT
                         !.errors = errors,
                         !.warned = IF LogsDetail(errors) THEN @ + 1 ELSE @])

\* the loop of lines 61-73 from item i on
RECURSIVE ParseFrom(_, _, _, _, _)
ParseFrom(data, model, pyd, i, acc) ==
    IF i > Len(data) THEN acc
    ELSE LET r == Validate(model, data[i], pyd)
             errors == acc.errors + 1
         IN  ParseFrom(data, model, pyd, i + 1,
                 IF r.ok THEN [acc EXCEPT !.items = Append(@, r.rec)]
                 ELSE [acc EXCEPT
                         !.errors = errors,
                         !.warned = IF LogsDetail(errors) THEN @ + 1 ELSE @])

\* the loop as it would be without the try/except: the first failure
\* leaves the function
RECURSIVE ParseFrom_strict(_, _, _, _, _)
ParseFrom_strict(data, model, pyd, i, acc) ==
    IF i > Len(data) THEN acc
    ELSE LET r == Validate(model, data[i], pyd)
         IN  IF r.ok
             THEN ParseFrom_strict(data, model, pyd, i + 1,
                      [acc EXCEPT !.items = Append(@, r.rec)])
             ELSE [acc EXCEPT !.raised = TRUE, !.items = <<>>]

\* _parse_list as it would be without the try/except
_parse_list_strict(data, model, pyd) ==
    IF data.k = "null" \/ data.v = <<>> THEN [NoParsed EXCEPT !.done = TRUE]
    ELSE LET r == ParseFrom_strict(data.v, model, pyd, 1,
                      [NoParsed EXCEPT !.done = TRUE])
         IN  [r EXCEPT !.summary = r.errors > 0]

\* _parse_list(data, model)
_parse_list(data, model, pyd) ==
    IF data.k = "null" \/ data.v = <<>> THEN [NoParsed EXCEPT !.done = TRUE]
    ELSE LET r == ParseFrom(data.v, model, pyd, 1,
                      [NoParsed EXCEPT !.done = TRUE])
         IN  [r EXCEPT !.summary = r.errors > 0]

----------------------------------------------------------------------------
(* Inputs of _parse_list *)

\* batches of every mix of raw objects have at most MaxBatch objects
MaxBatch == 2
\* batches of sound objects and objects lacking a required field have
\* BigBatch objects
BigBatch == 10

PydVersions == {1, 2}

S_date == <<"2", "0", "2", "4", "-", "0", "3", "-", "0", "1">>
S_duration == <<"1", ":", "2", "3", ".", "4", "5", "6">>

\* a value of the field's own type
Good(ty) ==
    CASE ty = "int" -> JInt(7)
      [] ty = "str" -> JStr(<<"a">>)
      [] ty = "float" -> JFloat(83, 456000)
      [] ty = "bool" -> JBool(TRUE)
      [] ty = "list" -> JList(<<JInt(2048)>>)
      [] ty \in {"datetime", "vdatetime"} -> JStr(S_date)

FullMap(model) == [n \in FieldNames(model) |-> Good(FieldOf(model, n)[2])]
FullObj(model) == RawObj(FullMap(model))

\* the mapping with name n bound to val
With(map, n, val) ==
    [x \in DOMAIN map \cup {n} |-> IF x = n THEN val ELSE map[x]]
Without(map, names) == [x \in DOMAIN map \ names |-> map[x]]

FirstField(model) == Schema(model)[1][1]
FieldsOfType(model, ty) == {f[1] : f \in {g \in Fields(model) : g[2] = ty}}

\* the duration fields: lap and sector times, pit stop time
DurationFields(model) ==
    CASE model = "Lap" ->
           {"lap_duration", "duration_sector_1", "duration_sector_2",
            "duration_sector_3"}
      [] model = "Pit" -> {"pit_duration"}
      [] OTHER -> {}

MissingObj(model) == RawObj(Without(FullMap(model), {FirstField(model)}))
DurationObj(model, n) == RawObj(With(FullMap(model), n, JStr(S_duration)))

\* raw objects of every sort: sound, lacking a required field, with a value
\* of the wrong type, with a numeric string for a number, with a name
\* outside the schema, not a mapping at all, with an unreadable date, with a
\* duration written M:SS.mmm, and two on which the library's versions differ
Kinds(model) ==
    {FullObj(model), MissingObj(model),
     RawObj(With(FullMap(model), FirstField(model), JStr(S_bad))),
     RawObj(With(FullMap(model), FirstField(model), JStr(<<"1", "2">>))),
     RawObj(With(FullMap(model), "extra", JInt(1))),
     JInt(-3),
     RawObj(With(FullMap(model), FirstField(model), JFloat(7, 500000)))}
        \cup {RawObj(With(FullMap(model), n, JStr(S_bad))) :
                 n \in FieldsOfType(model, "vdatetime")}
        \cup {RawObj(With(FullMap(model), n, JInt(7))) :
                 n \in FieldsOfType(model, "str") \cap Required(model)}
        \cup {DurationObj(model, n) : n \in DurationFields(model)}

SeqsUpTo(S, n) == UNION {[1..m -> S] : m \in 0..n}

\* the batches: short ones of every mix of kinds, long ones of sound objects
\* and objects lacking a required field, single objects with any subset of
\* the optional fields
InitParse ==
    /\ \E m \in Models, v \in PydVersions :
           \/ \E d \in SeqsUpTo(Kinds(m), MaxBatch) :
                  pin = [model |-> m, data |-> d, pyd |-> v, none |-> FALSE]
           \/ \E d \in [1..BigBatch -> {FullObj(m), MissingObj(m)}] :
                  pin = [model |-> m, data |-> d, pyd |-> v, none |-> FALSE]
           \/ \E out \in SUBSET Optionals(m) :
                  pin = [model |-> m, pyd |-> v, none |-> FALSE,
                         data |-> <<RawObj(Without(FullMap(m), out))>>]
           \/ pin = [model |-> m, data |-> <<>>, pyd |-> v, none |-> TRUE]
    /\ pout = NoParsed
    /\ CacheInit
    /\ serverUp
    /\ kin = [path |-> S_laps, p1 |-> <<>>, p2 |-> <<>>]
    /\ kout = NoKeys
    /\ TimeIdle
    /\ ThreadsIdle
    /\ AccessIdle

\* _parse_list(data, model) runs
ParseList ==
    /\ ~pout.done
    /\ pout' = _parse_list(IF pin.none THEN JNull ELSE JList(pin.data),
                            pin.model, pin.pyd)
    /\ UNCHANGED <<pin>>
    /\ UNCHANGED <<cacheVars, keyVars, timeVars, accVars, threadVars>>

NextParse == ParseList

SpecParse == InitParse /\ [][NextParse]_vars

----------------------------------------------------------------------------
(* Duration coercion: api.py _convert_time_to_seconds *)

\* strings given to the conversion have at most MaxTimeLen characters
MaxTimeLen == 5

JNaN == [k |-> "nan", v |-> 0]

\* s.split(':'): the part before the first colon and the part after it up
\* to the next colon; further parts are not looked at
FirstPart(s) == SubSeq(s, 1, FirstIndex(s, ":") - 1)
SecondPart(s) ==
    LET rest == SubSeq(s, FirstIndex(s, ":") + 1, Len(s))
        c == FirstIndex(rest, ":")
    IN  IF c = 0 THEN rest ELSE SubSeq(rest, 1, c - 1)

\* minutes * 60 + seconds
MinSec(m, s) ==
    LET frac == m.v[2] * 60 + s.v[2]
    IN  JFloat(m.v[1] * 60 + s.v[1] + frac \div FracScale, frac % FracScale)

Returned(val) == [done |-> TRUE, raised |-> FALSE, val |-> val]
Raised == [done |-> TRUE, raised |-> TRUE, val |-> JNull]

\* _convert_time_to_seconds(time_value)
_convert_time_to_seconds(tv) ==
    CASE tv.k \in {"null", "nan"} -> Returned(JNull)
      \* pd.isna of a list is an array, whose truth value is a ValueError
      \* unless it has one element
      [] tv.k = "list" ->
           IF Len(tv.v) > 1 THEN Raised ELSE Returned(JNull)
      [] tv.k = "int" -> Returned(JFloat(tv.v, 0))
      [] tv.k = "bool" -> Returned(JFloat(IF tv.v THEN 1 ELSE 0, 0))
      [] tv.k = "float" -> Returned(tv)
      [] tv.k = "str" ->
           IF FirstIndex(tv.v, ":") # 0
           THEN LET minutes == PyFloat(FirstPart(tv.v))
                    seconds == PyFloat(SecondPart(tv.v))
                IN  IF minutes.ok /\ seconds.ok
                    THEN Returned(MinSec(minutes.val, seconds.val))
                    ELSE Returned(JNull)
           ELSE LET f == PyFloat(tv.v)
                IN  IF f.ok THEN Returned(f.val) ELSE Returned(JNull)
      [] OTHER -> Returned(JNull)

TimeChars == {"1", "2", ":", ".", "a"}

TimeInputs ==
    {JNull, JNaN, JFloat(83, 456000), JBool(TRUE), JStr(S_duration),
     JStr(<<"8", "3", ".", "4", "5", "6">>), JList(<<JInt(1), JInt(2)>>),
     RawObj(<<>>)}
        \cup {JInt(n) : n \in 0..MaxInt}
        \cup {JStr(s) : s \in SeqsUpTo(TimeChars, MaxTimeLen)}

InitTime ==
    /\ tin \in TimeInputs
    /\ tout = NoOutcome
    /\ CacheInit
    /\ serverUp
    /\ kin = [path |-> S_laps, p1 |-> <<>>, p2 |-> <<>>]
    /\ kout = NoKeys
    /\ ParseIdle
    /\ ThreadsIdle
    /\ AccessIdle

\* _convert_time_to_seconds(time_value) runs
ConvertTime ==
    /\ ~tout.done
    /\ tout' = _convert_time_to_seconds(tin)
    /\ UNCHANGED <<tin>>
    /\ UNCHANGED <<cacheVars, keyVars, parseVars, accVars, threadVars>>

NextTime == ConvertTime

SpecTime == InitTime /\ [][NextTime]_vars

----------------------------------------------------------------------------
(* The accessors: api.py get_meetings .. get_race_control                  *)

S_year == <<"y","e","a","r">>
S_meeting_key == <<"m","e","e","t","i","n","g","_","k","e","y">>
S_speed_ge == <<"s","p","e","e","d",">","=">>
S_speed_le == <<"s","p","e","e","d","<","=">>

\* an argument the caller does not pass
Omitted == [k |-> "omitted", v |-> 0]

\* the parameter as the function body sees it: its default, None, when the
\* caller does not pass it
Default(arg) == IF arg = Omitted THEN JNull ELSE arg

\* a test for a true value in place of `is not None`
IsGiven_truthy(val) == val # JNull /\ val # IntVal(0)

\* `x is not None`
IsGiven(val) == val # JNull

\* if x is not None: params[name] = x
Put(params, name, val) ==
    IF IsGiven(val) THEN Append(params, <<name, val>>) ELSE params

get_meetings(year) ==
    [path |-> S_meetings, params |-> <<<<S_year, year>>>>]
get_sessions(meeting_key) ==
    [path |-> S_sessions, params |-> <<<<S_meeting_key, meeting_key>>>>]
get_drivers(session_key) ==
    [path |-> S_drivers, params |-> <<<<S_session_key, session_key>>>>]
get_laps(session_key, driver_number) ==
    [path |-> S_laps,
     params |-> Put(<<<<S_session_key, session_key>>>>,
                    S_driver_number, driver_number)]
get_stints(session_key, driver_number) ==
    [path |-> S_stints,
     params |-> Put(<<<<S_session_key, session_key>>>>,
                    S_driver_number, driver_number)]
get_pits(session_key, driver_number) ==
    [path |-> S_pit,
     params |-> Put(<<<<S_session_key, session_key>>>>,
                    S_driver_number, driver_number)]
get_car_data(session_key, driver_number, speed_min, speed_max) ==
    [path |-> S_car_data,
     params |-> Put(Put(Put(<<<<S_session_key, session_key>>>>,
                            S_driver_number, driver_number),
                        S_speed_ge, speed_min),
                    S_speed_le, speed_max)]
get_position_data(session_key, driver_number) ==
    [path |-> S_position,
     params |-> Put(<<<<S_session_key, session_key>>>>,
                    S_driver_number, driver_number)]
get_weather_data(session_key) ==
    [path |-> S_weather, params |-> <<<<S_session_key, session_key>>>>]
get_race_control(session_key) ==
    [path |-> S_race_control, params |-> <<<<S_session_key, session_key>>>>]

\* the accessors, and the optional parameters each of them has
Accessors ==
    {"get_meetings", "get_sessions", "get_drivers", "get_laps", "get_stints",
     "get_pits", "get_car_data", "get_position_data", "get_weather_data",
     "get_race_control"}
Filters == {"driver_number", "speed_min", "speed_max"}
FiltersOf(fn) ==
    CASE fn \in {"get_laps", "get_stints", "get_pits", "get_position_data"}
           -> {"driver_number"}
      [] fn = "get_car_data" -> Filters
      [] OTHER -> {}

\* the query the call fn(id, ...) hands to fetch_with_cache_json: the
\* arguments are bound to the parameters, then the body runs
QueryOf(fn, args) ==
    LET dn == Default(args.driver_number)
        lo == Default(args.speed_min)
        hi == Default(args.speed_max)
    IN  CASE fn = "get_meetings" -> get_meetings(args.id)
          [] fn = "get_sessions" -> get_sessions(args.id)
          [] fn = "get_drivers" -> get_drivers(args.id)
          [] fn = "get_laps" -> get_laps(args.id, dn)
          [] fn = "get_stints" -> get_stints(args.id, dn)
          [] fn = "get_pits" -> get_pits(args.id, dn)
          [] fn = "get_car_data" -> get_car_data(args.id, dn, lo, hi)
          [] fn = "get_position_data" -> get_position_data(args.id, dn)
          [] fn = "get_weather_data" -> get_weather_data(args.id)
          [] fn = "get_race_control" -> get_race_control(args.id)

\* identifiers and filter values are 0 .. MaxId; a filter may also be None
\* or not passed
MaxId == 1
Ids == {IntVal(n) : n \in 0..MaxId}
Optional == Ids \cup {JNull, Omitted}

\* the argument lists fn can be called with
ArgsOf(fn) ==
    {a \in [id : Ids, driver_number : Optional, speed_min : Optional,
            speed_max : Optional] :
        \A f \in Filters \ FiltersOf(fn) : a[f] = Omitted}

InitAccess ==
    /\ \E fn \in Accessors :
           \E a \in ArgsOf(fn), b \in ArgsOf(fn) :
               ain = [fn |-> fn, a |-> a, b |-> b]
    /\ aout = NoQueries
    /\ CacheInit
    /\ serverUp
    /\ kin = [path |-> S_laps, p1 |-> <<>>, p2 |-> <<>>]
    /\ kout = NoKeys
    /\ ParseIdle
    /\ TimeIdle
    /\ ThreadsIdle

\* the two calls are made: each builds its query, and fetch_with_cache
\* derives the key of each tier from it
CallAccessors ==
    /\ ~aout.done
    /\ LET qa == QueryOf(ain.fn, ain.a)
           qb == QueryOf(ain.fn, ain.b)
       IN  aout' = [done |-> TRUE, qa |-> qa, qb |-> qb,
                    ra |-> _make_key(S_f1, qa.path, qa.params),
                    rb |-> _make_key(S_f1, qb.path, qb.params),
                    la |-> LocalKey(qa.path, qa.params),
                    lb |-> LocalKey(qb.path, qb.params)]
    /\ UNCHANGED <<ain>>
    /\ UNCHANGED <<cacheVars, keyVars, parseVars, timeVars, threadVars>>

NextAccess == CallAccessors

SpecAccess == InitAccess /\ [][NextAccess]_vars

----------------------------------------------------------------------------
(* Claims *)

Ttl(path) == get_cache_settings(path).ttl
Fetched == last.op = "fetch"
FromTier == last.src \in {"redis", "memory"}

\* C1: two parameter mappings holding the same name/value pairs in a
\* different insertion order get the same external key and the same local
\* key.
C1_PermutationSameKey ==
    (kout.done /\ Pairs(kin.p1) = Pairs(kin.p2))
        => (kout.r1 = kout.r2 /\ kout.l1 = kout.l2)

\* two names inserted in the two orders, keys derived
C1_Witness ==
    /\ kout.done
    /\ Len(kin.p1) = 2
    /\ kin.p1 # kin.p2
    /\ Pairs(kin.p1) = Pairs(kin.p2)
    /\ kout.r1 = kout.r2

\* C2: two parameter sets that differ in a name or a value get different
\* external keys and different local keys.
C2_DistinctParamsDistinctKeys ==
    (kout.done /\ Pairs(kin.p1) # Pairs(kin.p2))
        => (kout.r1 # kout.r2 /\ kout.l1 # kout.l2)

\* C3: a fetch answered from a tier never returns a value stored more than
\* the endpoint's policy TTL ago.
C3_NeverServedPastTtl ==
    (Fetched /\ FromTier) => last.age <= Ttl(last.q.path)

\* C4: after a fetch that called upstream and stored its list, a later fetch
\* of the same query within the endpoint's policy TTL calls upstream zero
\* times and returns the same list.
C4_OneUpstreamCallPerWindow ==
    (/\ Fetched
     /\ last.prev.at >= 0 /\ ~last.prev.raised
     /\ last.at - last.prev.at < Ttl(last.q.path))
        => (last.up = "notcalled" /\ last.result = last.prev.val)

\* C5: a value stored for a query and looked up next, before the TTL elapses
\* and with no tier failure, comes back equal to the value stored, from
\* whichever tier answers.
C5_RoundTrip ==
    (Fetched /\ last.rt) => (FromTier /\ last.result = last.prev.val)

\* a list of an object, a string and a negative number stored, then read
\* back from the external tier
C5_Witness ==
    /\ Fetched /\ last.rt
    /\ last.src = "redis"
    /\ last.result = ListB

\* C6: no exception escapes fetch_with_cache; when the upstream function
\* raises, the result is the empty list.
C6_NoExceptionEscapes ==
    Fetched => (/\ last.exc = "none"
                /\ (last.up = "raised" => last.result = ListEmpty))

FailedResponse(resp) ==
    \/ resp.kind \in {"http_error", "transport_error"}
    \/ (resp.kind = "json" /\ resp.body.k # "list")

\* C7: when the upstream answers with JSON that is not a list, or the
\* request fails with a transport error or a non-2xx status, the fetch
\* returns the empty list and raises nothing.
C7_FailedUpstreamGivesEmptyList ==
    (Fetched /\ last.fn = "fetch_json" /\ FailedResponse(last.resp))
        => (last.up = "returned" /\ last.result = ListEmpty
                /\ last.exc = "none")

\* the upstream answered {"error": "bad"}
C7_Witness ==
    /\ Fetched /\ last.fn = "fetch_json"
    /\ last.resp.body = ErrorDict
    /\ last.result = ListEmpty

\* C8: with every get and set of the external store raising, no exception
\* of the client reaches the caller, a fetch that finds nothing in the local
\* tier returns the upstream list, and a later fetch of the same query
\* within the TTL returns that list from the local tier without calling
\* upstream.
C8_DegradedFetchServesLocal ==
    (Fetched /\ client = "conn" /\ ~extOk)
        => (/\ last.exc # "redis"
            /\ (last.mlook = "miss" => last.src = "upstream")
            /\ ((/\ last.prev.at >= 0 /\ ~last.prev.raised
                 /\ last.at - last.prev.at < Ttl(last.q.path))
                    => (/\ last.src = "memory"
                        /\ last.up = "notcalled"
                        /\ last.result = last.prev.val)))

\* C9: without the library, without the URL or with a failed ping, the
\* construction does not raise and leaves no client; with no client every
\* get is absent, every set and clear_pattern does nothing, and a fetch is
\* served by the local tier or by upstream.
C9_LocalOnlyMode ==
    /\ (last.op = "init"
            /\ ~(last.env.lib /\ last.env.url /\ last.env.pingOk))
           => (client = "none" /\ ~last.env.raised)
    /\ client = "none"
           => (/\ rstore = <<>>
               /\ ~extOk
               /\ Fetched
                      => (/\ last.rget = "skipped"
                          /\ last.rset \in {"skipped", "notreached"}
                          /\ last.src \in {"memory", "upstream"}
                          /\ ~last.both)
               /\ last.op = "clear"
                      => (last.rget = "skipped" /\ last.cleared = 0))

\* no client, and a fetch served by the local tier
C9_Witness ==
    /\ client = "none"
    /\ Fetched
    /\ last.src = "memory"

\* C10: the external tier is asked first and the local tier second: with a
\* value in both tiers the external one answers, the local tier is
\* consulted only after an external miss or failure, and upstream is called
\* only after both tiers missed.
C10_LookupOrder ==
    Fetched
        => (/\ last.both => last.src = "redis"
            /\ last.mlook # "notreached"
                   => last.rget \in {"skipped", "miss", "error"}
            /\ last.up # "notcalled"
                   => (/\ last.rget \in {"skipped", "miss", "error"}
                       /\ last.mlook = "miss"))

\* both tiers hold the query's value and the external tier answers
C10_Witness ==
    /\ Fetched
    /\ last.both
    /\ last.src = "redis"
    /\ last.mlook = "notreached"

\* C11: a fetch that missed both tiers and got a value from upstream has,
\* when it returns, stored that value in the local tier and, when the
\* external store is reachable, in the external tier under the key of the
\* endpoint and parameters, expiring after the endpoint's policy TTL.
C11_MissStoresInBothTiers ==
    (Fetched /\ last.up = "returned")
        => LET key == LocalKey(last.q.path, last.q.params)
               rkey == _make_key(S_f1, last.q.path, last.q.params)
           IN  /\ key \in DOMAIN mstore
               /\ mstore[key].val = last.result
               /\ mstore[key].at = last.at
               /\ last.reach
                      => (/\ rkey \in DOMAIN rstore
                          /\ rstore[rkey].data = JsonDumps(last.result)
                          /\ rstore[rkey].at = last.at
                          /\ rstore[rkey].exp
                                 = last.at + Ttl(last.q.path))

\* upstream gave a valid empty list for an endpoint whose policy TTL is not
\* the default, and the external store took it
C11_Witness ==
    /\ Fetched
    /\ last.up = "returned"
    /\ last.reach
    /\ last.resp.kind = "json"
    /\ last.resp.body = ListEmpty
    /\ last.result = ListEmpty
    /\ Ttl(last.q.path) # DefaultTtl
    /\ _make_key(S_f1, last.q.path, last.q.params) \in DOMAIN rstore

\* endpoint strings outside the table: empty, a prefix of a known name, a
\* known name with a suffix, a parameter name
UnknownEndpoints ==
    {<<>>, S_lap, S_laps \o <<"?">>, S_f1, S_error, S_session_key}

\* the table of the ten endpoints, as <<ttl, maxsize>>
PolicyTable ==
    (S_meetings :> <<86400, 100>>) @@ (S_sessions :> <<43200, 500>>)
        @@ (S_drivers :> <<21600, 1000>>) @@ (S_laps :> <<600, 5000>>)
        @@ (S_stints :> <<1200, 2000>>) @@ (S_pit :> <<1200, 1000>>)
        @@ (S_car_data :> <<300, 10000>>) @@ (S_position :> <<300, 5000>>)
        @@ (S_weather :> <<1800, 500>>) @@ (S_race_control :> <<600, 1000>>)

\* C12: the policy lookup is total and static: once the module is loaded,
\* in every state reached by cache operations, get_cache_settings gives
\* each of the ten known endpoints its table entry and every other endpoint
\* string the default of ttl 600 and maxsize 1000.
C12_PolicyTotalAndStatic ==
    client # "unset"
        => (/\ DOMAIN PolicyTable = KnownEndpoints
            /\ \A e \in KnownEndpoints :
                   get_cache_settings(e)
                       = [ttl |-> PolicyTable[e][1],
                          maxsize |-> PolicyTable[e][2]]
            /\ \A e \in UnknownEndpoints :
                   /\ e \notin KnownEndpoints
                   /\ get_cache_settings(e) = [ttl |-> 600, maxsize |-> 1000]
            /\ Fetched
                   => Ttl(last.q.path) = PolicyTable[last.q.path][1])

\* a fetch from upstream and then a clear have run, and the lookup of an
\* unknown endpoint still gives the default
C12_Witness ==
    /\ calls = MaxCalls
    /\ last.op = "clear"
    /\ \E q \in Queries : hist[q].at >= 0
    /\ get_cache_settings(S_lap).ttl = DefaultTtl
    /\ get_cache_settings(S_lap).maxsize = DefaultMaxsize

HexChars ==
    {"0", "1", "2", "3", "4", "5", "6", "7", "8", "9", "a", "b", "c", "d",
     "e", "f"}

\* the form of the external key r of (path, params) in namespace f1
BoundedKey(r, path, params) ==
    LET cs == KeyStr(path, params)
        pre == Len(S_f1) + Len(S_hash)
    IN  /\ Len(r) <= Len(S_f1) + 1 + 200
        /\ Len(cs) > 200
               => (/\ Len(r) = pre + 32
                   /\ SubSeq(r, 1, pre) = S_f1 \o S_hash
                   /\ \A i \in (pre + 1)..Len(r) : r[i] \in HexChars)
        /\ Len(cs) <= 200 => r = S_f1 \o <<":">> \o cs

\* C14: external keys are bounded in length: a canonical string
\* 'endpoint?name=value&...' longer than 200 characters gives
\* 'f1:hash:' followed by a digest of 32 hex digits, any other gives 'f1:'
\* followed by the canonical string, and no key is longer than the
\* namespace plus 201 characters.
C14_KeysBounded ==
    kout.done
        => (/\ BoundedKey(kout.r1, kin.path, kin.p1)
            /\ BoundedKey(kout.r2, kin.path, kin.p2))

\* one canonical string exactly at the limit, kept plain, and one above it,
\* hashed
C14_Witness ==
    /\ kout.done
    /\ Len(KeyStr(kin.path, kin.p1)) = KeyLenLimit
    /\ Len(kout.r1) = Len(S_f1) + 1 + KeyLenLimit
    /\ Len(KeyStr(kin.path, kin.p2)) > KeyLenLimit
    /\ Len(kout.r2) = Len(S_f1) + Len(S_hash) + DigestLen

\* C13: the local tier never holds more than maxsize entries, and a value
\* stored into a full local tier is admitted by discarding an entry: the
\* tier then holds exactly maxsize entries, the new one among them.
C13_LocalTierBounded ==
    /\ Cardinality(DOMAIN mstore) + mfill <= MemoryMaxsize
    /\ (Fetched /\ last.mfull)
           => (/\ Cardinality(DOMAIN mstore) + mfill = MemoryMaxsize
               /\ LocalKey(last.q.path, last.q.params) \in DOMAIN mstore)

\* a fetch stored a new key while the tier held maxsize live entries
C13_Witness ==
    /\ Fetched
    /\ last.mfull
    /\ last.up = "returned"
    /\ Cardinality(DOMAIN mstore) + mfill = MemoryMaxsize
    /\ LocalKey(last.q.path, last.q.params) \in DOMAIN mstore

\* the positions of the batch whose object passes validation
Passing ==
    {i \in 1..Len(pin.data) : Validate(pin.model, pin.data[i], pin.pyd).ok}

\* the object is a mapping that lacks a required field
LacksRequired(model, item) ==
    item.k = "dict" /\ ~(Required(model) \subseteq DOMAIN item.v)

\* the object is a mapping with a non-numeric string where an int is due
HasWrongType(model, item) ==
    /\ item.k = "dict"
    /\ \E n \in FieldsOfType(model, "int") \cap DOMAIN item.v :
           item.v[n] = JStr(S_bad)

\* C15: _parse_list never raises, drops exactly the objects that fail
\* validation, among them every object lacking a required field or holding
\* a value of the wrong type, and returns one record for each other object:
\* records returned + errors counted = objects given.
C15_DropsExactlyTheFailing ==
    pout.done
        => LET pass == Passing
           IN  /\ ~pout.raised
               /\ Len(pout.items) = Cardinality(pass)
               /\ pout.errors = Len(pin.data) - Cardinality(pass)
               /\ Len(pout.items) + pout.errors = Len(pin.data)
               /\ \A i \in pass :
                      LET r == Validate(pin.model, pin.data[i], pin.pyd).rec
                      IN  \E j \in 1..Len(pout.items) : pout.items[j] = r
               /\ \A i \in 1..Len(pin.data) :
                      (\/ LacksRequired(pin.model, pin.data[i])
                       \/ HasWrongType(pin.model, pin.data[i]))
                          => i \notin pass

\* ten objects of which two lack a required field gave eight records and
\* two errors
C15_Witness ==
    /\ pout.done
    /\ Len(pin.data) = 10
    /\ Cardinality({i \in 1..Len(pin.data) :
                       LacksRequired(pin.model, pin.data[i])}) = 2
    /\ Len(pout.items) = 8
    /\ pout.errors = 2

\* C16: a Lap or Pit raw object whose duration field is the string
\* "1:23.456", sound otherwise, gives a record, not a dropped row, and the
\* record's field is 83.456.
C16_DurationStringNormalized ==
    pout.done
        => \A i \in 1..Len(pin.data) :
               \A n \in DurationFields(pin.model) :
                   pin.data[i] = DurationObj(pin.model, n)
                       => \E j \in 1..Len(pout.items) :
                              pout.items[j][n] = JFloat(83, 456000)

\* the object is a mapping with every required field and a value of the
\* declared type in every field it has
Sound(model, item) ==
    LET sch == Schema(model)
    IN  /\ item.k = "dict"
        /\ DOMAIN item.v \subseteq {sch[i][1] : i \in 1..Len(sch)}
        /\ \A i \in 1..Len(sch) :
               IF sch[i][1] \in DOMAIN item.v
               THEN item.v[sch[i][1]] = Good(sch[i][2])
               ELSE ~sch[i][3]

\* the record of a sound object: None for what it omits, the source value
\* for what it has, a date string as the date it writes
RecordOf(model, item) ==
    LET dates == FieldsOfType(model, "datetime")
                     \cup FieldsOfType(model, "vdatetime")
    IN  [n \in FieldNames(model) |->
            IF n \notin DOMAIN item.v THEN JNull
            ELSE IF n \in dates THEN JDate(item.v[n].v)
            ELSE item.v[n]]

\* C18: for every record type, a raw object with all required fields, any
\* subset of the optional fields and a value of the declared type in each
\* is parsed into a record, not dropped, in which each omitted optional
\* field is None and each present field has its source value.
C18_OmittedOptionalsAreNone ==
    pout.done
        => \A i \in 1..Len(pin.data) :
               Sound(pin.model, pin.data[i])
                   => LET r == RecordOf(pin.model, pin.data[i])
                      IN  \E j \in 1..Len(pout.items) : pout.items[j] = r

\* a Lap with the required fields and one optional field only
C18_Witness ==
    /\ pout.done
    /\ pin.model = "Lap"
    /\ Len(pin.data) = 1
    /\ Sound("Lap", pin.data[1])
    /\ DOMAIN pin.data[1].v = Required("Lap") \cup {"st_speed"}
    /\ Len(pout.items) = 1
    /\ pout.items[1]["lap_duration"] = JNull
    /\ pout.items[1]["st_speed"] = JFloat(83, 456000)

\* C19: in the parsing of one batch with k failing objects, exactly
\* min(k, 3) detailed warnings are logged and the error count is k.
C19_WarningsCapped ==
    pout.done
        => LET k == Len(pin.data) - Cardinality(Passing)
           IN  /\ pout.errors = k
               /\ pout.warned = IF k < 3 THEN k ELSE 3

\* five failures, three detailed warnings
C19_Witness ==
    /\ pout.done
    /\ Len(pin.data) - Cardinality(Passing) = 5
    /\ pout.errors = 5
    /\ pout.warned = 3

\* a number written in digits with at most one point
Numeric(s) ==
    /\ \A i \in 1..Len(s) : IsDigit(s[i]) \/ s[i] = "."
    /\ Cardinality({i \in 1..Len(s) : s[i] = "."}) <= 1
    /\ \E i \in 1..Len(s) : IsDigit(s[i])

\* a well-formed duration: a plain number, or minutes, one colon, seconds
WellFormed(s) ==
    \/ Numeric(s)
    \/ /\ Cardinality({i \in 1..Len(s) : s[i] = ":"}) = 1
       /\ Numeric(FirstPart(s))
       /\ Numeric(SecondPart(s))

\* C17: _convert_time_to_seconds never raises and returns a number of
\* seconds or None: a number gives itself, "1:23.456" gives 83.456, a
\* well-formed duration string gives a number, and None and every string
\* that is not a well-formed duration give None.
C17_DurationCoercionTotal ==
    tout.done
        => (/\ ~tout.raised
            /\ tout.val.k \in {"float", "null"}
            /\ tin.k = "int" => tout.val = JFloat(tin.v, 0)
            /\ tin.k = "float" => tout.val = tin
            /\ tin = JNull => tout.val = JNull
            /\ tin = JStr(S_duration) => tout.val = JFloat(83, 456000)
            /\ tin.k = "str"
                   => (IF WellFormed(tin.v) THEN tout.val.k = "float"
                       ELSE tout.val = JNull))

\* C20: with fetch_with_cache running in several threads, no call raises
\* because of another call's access to memory_cache, the local tier never
\* holds more than maxsize entries, and a value read from the local tier is
\* one that was stored under its key.
C20_ConcurrentAccessSafe ==
    /\ \A t \in DOMAIN th : th[t].exc # "KeyError"
    /\ Cardinality(DOMAIN mstore) + mfill <= MemoryMaxsize
    /\ \A t \in DOMAIN th :
           th[t].src = "memory"
               => \/ /\ ThreadKey(t) \in DOMAIN FullStore
                     /\ th[t].result = FullStore[ThreadKey(t)].val
                  \/ \E o \in DOMAIN th :
                        /\ th[o].stored
                        /\ ThreadKey(o) = ThreadKey(t)
                        /\ th[o].data = th[t].result

\* C26: the two tiers identify queries alike: two parameter mappings of one
\* endpoint get equal local keys exactly when they get equal external keys.
C26_TiersAgreeOnIdentity ==
    kout.done => ((kout.l1 = kout.l2) <=> (kout.r1 = kout.r2))

\* C23: a fetch whose upstream call failed (transport error, non-2xx status
\* or JSON that is not a list) writes to neither tier.
C23_FailureNotCached ==
    (Fetched /\ last.fn = "fetch_json" /\ FailedResponse(last.resp))
        => (/\ last.rset = "notreached"
            /\ ~MemContains(LocalKey(last.q.path, last.q.params)))

\* C27: after clear_cache(pattern), a fetch of a query whose key matches the
\* pattern is not answered with a value cached before the clear: it is
\* answered by upstream.
C27_InvalidationEffective ==
    (Fetched /\ last.inval) => ~FromTier

\* C28: a fetch answered from a tier calls no upstream and writes to neither
\* tier: every key keeps its stored value and its expiry, the entry read
\* included.
C28_HitIsReadOnly ==
    [][(last'.op = "fetch" /\ calls' = calls + 1
            /\ last'.src \in {"redis", "memory"})
        => (/\ last'.up = "notcalled"
            /\ last'.rset = "notreached"
            /\ rstore' = rstore
            /\ mfill' = mfill
            /\ hist' = hist
            /\ DOMAIN mstore' = DOMAIN mstore
            /\ \A x \in DOMAIN mstore :
                   /\ mstore'[x].val = mstore[x].val
                   /\ mstore'[x].exp = mstore[x].exp
                   /\ mstore'[x].at = mstore[x].at)]_vars

\* a fetch answered by the local tier some time after the entry was stored
C28_Witness ==
    /\ Fetched
    /\ last.src = "memory"
    /\ last.age > 0
    /\ LocalKey(last.q.path, last.q.params) \in DOMAIN mstore
    /\ mstore[LocalKey(last.q.path, last.q.params)].exp < now + MemoryTtl

\* C29: _parse_list returns the records of the objects that pass validation
\* in the order of the input, one record for each, an empty list for an
\* empty list and for None, and leaves its input as it was.
C29_OrderPreservedInputUntouched ==
    /\ [](pout.done
            => LET pass == Passing
               IN  /\ Len(pout.items) = Cardinality(pass)
                   /\ \A i \in pass :
                          pout.items[Cardinality({x \in pass : x <= i})]
                              = Validate(pin.model, pin.data[i], pin.pyd).rec
                   /\ (pin.none \/ pin.data = <<>>) => pout.items = <<>>)
    /\ [][pin' = pin]_vars

\* two objects that give different records, both returned, first one first
C29_Witness ==
    /\ pout.done
    /\ Len(pin.data) = 2
    /\ Len(pout.items) = 2
    /\ pout.items[1] # pout.items[2]
    /\ pout.items[1] = Validate(pin.model, pin.data[1], pin.pyd).rec

\* the endpoint and the parameter names of the accessors, after the
\* docstrings and the OpenF1 parameter names
Endpoint(fn) ==
    CASE fn = "get_meetings" -> S_meetings
      [] fn = "get_sessions" -> S_sessions
      [] fn = "get_drivers" -> S_drivers
      [] fn = "get_laps" -> S_laps
      [] fn = "get_stints" -> S_stints
      [] fn = "get_pits" -> S_pit
      [] fn = "get_car_data" -> S_car_data
      [] fn = "get_position_data" -> S_position
      [] fn = "get_weather_data" -> S_weather
      [] fn = "get_race_control" -> S_race_control
IdName(fn) ==
    CASE fn = "get_meetings" -> S_year
      [] fn = "get_sessions" -> S_meeting_key
      [] OTHER -> S_session_key
FilterName(f) ==
    CASE f = "driver_number" -> S_driver_number
      [] f = "speed_min" -> S_speed_ge
      [] f = "speed_max" -> S_speed_le

\* the filters of fn that the call passes a value for
Passed(fn, args) == {f \in FiltersOf(fn) : args[f] \notin {JNull, Omitted}}

\* the parameters the call is to send
Supplied(fn, args) ==
    {<<IdName(fn), args.id>>}
        \cup {<<FilterName(f), args[f]>> : f \in Passed(fn, args)}

\* C24: each accessor queries its one endpoint with the identifier and with
\* exactly the optional filters that are not None, speed_min and speed_max
\* under the names speed>= and speed<=; two calls that differ only in
\* omitting a filter or passing None for it get the same key in both tiers,
\* and a call that passes a value for a filter, 0 included, gets other keys
\* than a call that does not.
C24_AccessorsSendWhatIsSupplied ==
    aout.done
        => LET fn == ain.fn
               a == ain.a
               b == ain.b
           IN  /\ aout.qa.path = Endpoint(fn)
               /\ aout.qb.path = Endpoint(fn)
               /\ Pairs(aout.qa.params) = Supplied(fn, a)
               /\ Pairs(aout.qb.params) = Supplied(fn, b)
               /\ Len(aout.qa.params) = Cardinality(Supplied(fn, a))
               /\ Len(aout.qb.params) = Cardinality(Supplied(fn, b))
               /\ (a.id = b.id /\ \A f \in Filters :
                                     Default(a[f]) = Default(b[f]))
                      => (aout.ra = aout.rb /\ aout.la = aout.lb)
               /\ (a.id = b.id /\ Passed(fn, a) # Passed(fn, b))
                      => (aout.ra # aout.rb /\ aout.la # aout.lb)

\* get_car_data called without driver_number and with driver_number=None,
\* speed_min=0 in both calls: one key; the key is not that of a call without
\* speed_min
C24_Witness ==
    /\ aout.done
    /\ ain.fn = "get_car_data"
    /\ ain.a.driver_number = Omitted
    /\ ain.b.driver_number = JNull
    /\ ain.a.speed_min = IntVal(0)
    /\ ain.b.speed_min = IntVal(0)
    /\ ain.a.id = ain.b.id
    /\ ain.a.speed_max = ain.b.speed_max
    /\ aout.ra = aout.rb
    /\ aout.la = aout.lb
    /\ Len(aout.qa.params) >= 2

\* two calls for one query that both missed and fetched
BothMissed(t, o) ==
    /\ t # o
    /\ th[t].q = th[o].q
    /\ th[t].src = "upstream"
    /\ th[o].src = "upstream"

C25_LookupAtomic ==
    \A t \in DOMAIN th :
        (th[t].found /\ th[t].pc = "done")
            => (th[t].exc = "none" /\ th[t].src = "memory")

\* C22: a call of fetch_with_cache that has started eventually returns or
\* raises, even when the external store does not answer.
C22_FetchReturns ==
    \A t \in {1} : (th[t].pc # "idle") ~> (th[t].pc = "done")

====
